---- MODULE Spec2Model ----
(***************************************************************************)
(* The Kalman filter of KalmanFilter.ipynb: the two Gaussian functions     *)
(* add_gaussians (predict) and multiply_gaussians (update), the matrix     *)
(* recursion of the notebook's multivariate table taken at 1x1, and the    *)
(* driver loop kalman_filtering.                                           *)
(*                                                                         *)
(* Numbers are exact rationals <<n, d>> in lowest terms with d > 0.  The   *)
(* pair <<0, 0>> stands for a value that was never produced because the    *)
(* division that computes it raised ZeroDivisionError; it propagates       *)
(* through every later operation of the same expression.                   *)
(***************************************************************************)
EXTENDS Integers, Sequences, FiniteSets, TLC

VARIABLES belief, kstate, last, valid, calls, history,
          args, z_all, i, x_pred, x_est, passed, pc

filterVars == <<belief, kstate, last, valid, calls, history>>
driverVars == <<args, z_all, i, x_pred, x_est, passed, pc>>
vars == <<belief, kstate, last, valid, calls, history,
          args, z_all, i, x_pred, x_est, passed, pc>>

(***************************************************************************)
(* Bounds of the model.                                                    *)
(***************************************************************************)
MaxCalls == 3
MaxN == 2
MaxQ == 6
ConvSteps == 50

(***************************************************************************)
(* Arithmetic of the notebook's numbers (+, -, *, / and the comparisons).  *)
(***************************************************************************)
Abs(n) == IF n < 0 THEN -n ELSE n

RECURSIVE GCD(_, _)
GCD(a, b) == IF b = 0 THEN a ELSE GCD(b, a % b)

ZeroDivisionError == <<0, 0>>

Raised(a) == a[2] = 0

Norm(n, d) ==
  IF d = 0 THEN ZeroDivisionError
  ELSE LET g == GCD(Abs(n), Abs(d))
           s == IF d < 0 THEN -1 ELSE 1
       IN <<(s * n) \div g, (s * d) \div g>>

Num(n) == <<n, 1>>

Frac(n, d) == Norm(n, d)

RAdd(a, b) ==
  IF Raised(a) \/ Raised(b) THEN ZeroDivisionError
  ELSE LET g == GCD(a[2], b[2])
       IN Norm(a[1] * (b[2] \div g) + b[1] * (a[2] \div g), a[2] * (b[2] \div g))

RNeg(a) == <<-a[1], a[2]>>

RSub(a, b) == RAdd(a, RNeg(b))

RMul(a, b) ==
  IF Raised(a) \/ Raised(b) THEN ZeroDivisionError
  ELSE LET g1 == GCD(Abs(a[1]), b[2])
           g2 == GCD(Abs(b[1]), a[2])
       IN Norm((a[1] \div g1) * (b[1] \div g2), (a[2] \div g2) * (b[2] \div g1))

RDiv(a, b) ==
  IF Raised(a) \/ Raised(b) \/ b[1] = 0 THEN ZeroDivisionError
  ELSE RMul(a, IF b[1] < 0 THEN <<-b[2], -b[1]>> ELSE <<b[2], b[1]>>)

RLe(a, b) ==
  LET g == GCD(a[2], b[2])
  IN a[1] * (b[2] \div g) <= b[1] * (a[2] \div g)

RLt(a, b) == RLe(a, b) /\ a # b

Zero == Num(0)
One == Num(1)

(***************************************************************************)
(* The two Gaussian functions.  A result is the pair (mean, variance).     *)
(***************************************************************************)
add_gaussians_sub(x, P, u, Q) == <<RAdd(x, u), RSub(P, Q)>>

add_gaussians_noQ(x, P, u, Q) == <<RAdd(x, u), P>>

add_gaussians(x, P, u, Q) == <<RAdd(x, u), RAdd(P, Q)>>

kalman_gain_minus(R, P) == RDiv(P, RSub(P, R))

kalman_gain(R, P) == RDiv(P, RAdd(P, R))

residual(z, x) == RSub(z, x)

multiply_gaussians_swapped(z, R, x, P) ==
  <<RAdd(x, RMul(RDiv(R, RAdd(P, R)), residual(z, x))),
    RDiv(RMul(P, R), RAdd(P, R))>>

multiply_gaussians_inverted(z, R, x, P) ==
  <<RAdd(x, RMul(kalman_gain(R, P), residual(z, x))),
    RDiv(RAdd(P, R), RMul(P, R))>>

multiply_gaussians_floor(z, R, x, P) ==
  LET Rf == IF RAdd(P, R) = Zero THEN Frac(1, 1000) ELSE R
  IN <<RAdd(x, RMul(RDiv(P, RAdd(P, Rf)), residual(z, x))),
       RDiv(RMul(P, Rf), RAdd(P, Rf))>>

multiply_gaussians(z, R, x, P) ==
  <<RAdd(x, RMul(kalman_gain(R, P), residual(z, x))),
    RDiv(RMul(P, R), RAdd(P, R))>>

Failed(t) == Raised(t[1]) \/ Raised(t[2])

(***************************************************************************)
(* The multivariate table at n = k = m = 1: a 1x1 matrix is its entry.     *)
(***************************************************************************)
Identity == One
Transpose(A) == A
MatMul(A, B) == RMul(A, B)
Inverse(A) == RDiv(One, A)

F == Identity
B == Identity
H == Identity

kf_predict(x, P, u, Q) ==
  <<RAdd(MatMul(F, x), MatMul(B, u)),
    RAdd(MatMul(MatMul(F, P), Transpose(F)), Q)>>

kf_update(z, R, x, P) ==
  LET y == RSub(z, MatMul(H, x))
      S == RAdd(MatMul(MatMul(H, P), Transpose(H)), R)
      K == MatMul(MatMul(P, Transpose(H)), Inverse(S))
  IN <<RAdd(x, MatMul(K, y)),
       MatMul(RSub(Identity, MatMul(K, H)), P)>>

(***************************************************************************)
(* A filter driven call by call: the belief threaded through predict and   *)
(* update calls with arbitrary arguments.                                  *)
(***************************************************************************)
InitMeans == {Zero}
InitVariances == {Zero, One, Num(100)}
USet == {Num(-1), Zero, Num(2)}
QSet == {Num(-1), Zero, One}
ZSet == {Zero, Num(5)}
RSet == {Num(-1), Zero, Frac(1, 2), One}

NoCall == [op |-> "none", u |-> Zero, Q |-> Zero, z |-> Zero, R |-> Zero,
           mean |-> Zero, variance |-> Zero, gain |-> Zero, status |-> "ok"]

DriverIdle ==
  /\ args = [N |-> 0, R |-> Zero, u |-> Zero, Q |-> Zero]
  /\ z_all = <<>>
  /\ i = 0
  /\ x_pred = <<>>
  /\ x_est = <<>>
  /\ passed = [i |-> -1, pred |-> <<Zero, Zero>>, upd |-> <<Zero, Zero>>]
  /\ pc = "idle"

InitFilter(m, v) ==
  /\ belief = [mean |-> m, variance |-> v]
  /\ kstate = [x |-> m, P |-> v]
  /\ last = NoCall
  /\ valid = TRUE
  /\ calls = 0
  /\ history = <<>>

Init ==
  /\ \E m \in InitMeans, v \in InitVariances : InitFilter(m, v)
  /\ DriverIdle

Predict(u, Q) ==
  LET r == add_gaussians(belief.mean, belief.variance, u, Q)
      k == kf_predict(kstate.x, kstate.P, u, Q)
  IN /\ belief' = [mean |-> r[1], variance |-> r[2]]
     /\ kstate' = [x |-> k[1], P |-> k[2]]
     /\ last' = [NoCall EXCEPT !.op = "predict", !.u = u, !.Q = Q,
                               !.mean = belief.mean, !.variance = belief.variance]
     /\ valid' = (valid /\ RLe(Zero, Q))
     /\ calls' = calls + 1
     /\ history' = history
     /\ UNCHANGED driverVars

Update(z, R) ==
  LET r == multiply_gaussians(z, R, belief.mean, belief.variance)
      k == kf_update(z, R, kstate.x, kstate.P)
  IN /\ belief' = IF Failed(r) THEN belief ELSE [mean |-> r[1], variance |-> r[2]]
     /\ kstate' = IF Failed(k) THEN kstate ELSE [x |-> k[1], P |-> k[2]]
     /\ last' = [NoCall EXCEPT !.op = "update", !.z = z, !.R = R,
                               !.mean = belief.mean, !.variance = belief.variance,
                               !.gain = kalman_gain(R, belief.variance),
                               !.status = IF Failed(r) THEN "ZeroDivisionError" ELSE "ok"]
     /\ valid' = (valid /\ RLe(Zero, R))
     /\ calls' = calls + 1
     /\ history' = IF Failed(r) THEN history ELSE Append(history, belief')
     /\ UNCHANGED driverVars

CallPredict == calls < MaxCalls /\ \E u \in USet, Q \in QSet : Predict(u, Q)

CallUpdate == calls < MaxCalls /\ \E z \in ZSet, R \in RSet : Update(z, R)

Next == CallPredict \/ CallUpdate

Spec == Init /\ [][Next]_vars

(***************************************************************************)
(* The convergence scenario: from (0, 100), predict(0, 0) then             *)
(* update(5, 1), repeated.                                                 *)
(***************************************************************************)
InitConv ==
  /\ InitFilter(Zero, Num(100))
  /\ DriverIdle

ConvPredict == calls < 2 * ConvSteps /\ last.op # "predict" /\ Predict(Zero, Zero)

ConvUpdate == last.op = "predict" /\ Update(Num(5), One)

NextConv == ConvPredict \/ ConvUpdate

SpecConv == InitConv /\ [][NextConv]_vars

(***************************************************************************)
(* The driver kalman_filtering(N, R, u, Q).  The sliders give N in 1..20   *)
(* (here 1..MaxN), R in {0, 0.5, .., 3}, u in -2..2 and Q in 1..10        *)
(* (here 1..MaxQ, which keeps every product within TLC's integers); the    *)
(* normal samples of randn are drawn from Noise.                           *)
(***************************************************************************)
NSlider == 1..MaxN
RSlider == {Frac(k, 2) : k \in 0..6}
uSlider == {Num(k) : k \in -2..2}
QSlider == {Num(k) : k \in 1..MaxQ}
Noise == {Num(-1), Zero, One}

x0 == Zero
P0 == Num(100)

NoArgs == [i |-> -1, pred |-> <<Zero, Zero>>, upd |-> <<Zero, Zero>>]

InitDriver ==
  /\ InitFilter(x0, P0)
  /\ args \in [N : NSlider, R : RSlider, u : uSlider, Q : QSlider]
  /\ z_all = <<>>
  /\ i = 0
  /\ x_pred = <<>>
  /\ x_est = <<>>
  /\ passed = NoArgs
  /\ pc = "start"

Start ==
  /\ pc = "start"
  /\ \E w \in [1..args.N -> Noise] :
       z_all' = [k \in 1..args.N |-> RAdd(Num(k - 1), RMul(args.R, w[k]))]
  /\ x_pred' = <<>>
  /\ x_est' = <<>>
  /\ i' = 0
  /\ pc' = "loop"
  /\ UNCHANGED <<args, passed>>
  /\ UNCHANGED filterVars

\* One iteration of the for loop: px, pP are the arguments of add_gaussians and
\* first tells whether the update takes the variance from P or from x_pred[i].
Iteration(px, pP, first) ==
  LET z == z_all[i + 1]
      xp == Append(x_pred, add_gaussians(px, pP, args.u, args.Q))
      uP == IF first THEN P0 ELSE xp[i + 1][2]
      est == multiply_gaussians(z, args.R, xp[i + 1][1], uP)
  IN /\ x_pred' = xp
     /\ passed' = [i |-> i, pred |-> <<px, pP>>, upd |-> <<xp[i + 1][1], uP>>]
     /\ x_est' = IF Failed(est) THEN x_est ELSE Append(x_est, est)
     /\ i' = IF Failed(est) THEN i ELSE i + 1
     /\ pc' = IF Failed(est) THEN "raised"
              ELSE IF i + 1 = args.N THEN "plot" ELSE "loop"
     /\ UNCHANGED <<args, z_all>>
     /\ UNCHANGED filterVars

LoopFirst == pc = "loop" /\ i < args.N /\ i = 0 /\ Iteration(x0, P0, TRUE)

LoopRest ==
  /\ pc = "loop" /\ i < args.N /\ i # 0
  /\ Iteration(x_est[i][1], x_est[i][2], FALSE)

kalman_filtering == Start \/ LoopFirst \/ LoopRest

SpecDriver == InitDriver /\ [][kalman_filtering]_vars

(***************************************************************************)
(* Properties.                                                             *)
(***************************************************************************)
LastIn == [mean |-> last.mean, variance |-> last.variance]

\* C1: an update of a belief with variance >= 0 by a measurement with R >= 0,
\* variance + R > 0, returns mean + K * (z - mean) with K = variance / (variance + R)
\* and the variance variance * R / (variance + R).
C1_UpdateEquations ==
  (/\ last.op = "update"
   /\ RLe(Zero, last.variance)
   /\ RLe(Zero, last.R)
   /\ RLt(Zero, RAdd(last.variance, last.R)))
  => LET s == RAdd(last.variance, last.R)
     IN /\ last.status = "ok"
        /\ RMul(last.gain, s) = last.variance
        /\ RMul(RSub(belief.mean, last.mean), s)
             = RMul(last.variance, RSub(last.z, last.mean))
        /\ RMul(belief.variance, s) = RMul(last.variance, last.R)

C1_Witness ==
  /\ last.op = "update" /\ last.status = "ok"
  /\ RLt(Zero, last.variance) /\ RLt(Zero, last.R)
  /\ last.variance # last.R
  /\ last.z # last.mean
  /\ belief.mean # last.mean

\* C2: a predict call returns exactly (mean + u, variance + Q), for every Q, and
\* changes nothing but the belief it produces (the call record and the counter
\* of the model aside).
C2_Predict ==
  [][(calls' = calls + 1 /\ last'.op = "predict")
      => /\ last'.status = "ok"
         /\ LastIn' = belief
         /\ RSub(belief'.mean, belief.mean) = last'.u
         /\ RSub(belief'.variance, belief.variance) = last'.Q
         /\ history' = history
         /\ UNCHANGED driverVars]_vars

C2_Witness ==
  /\ last.op = "predict" /\ last.u # Zero /\ last.Q # Zero
  /\ belief.mean = RAdd(last.mean, last.u)
  /\ belief.variance = RAdd(last.variance, last.Q)
  /\ calls >= 2

C4_VarianceNonNegative == valid => RLe(Zero, belief.variance)

C4_Witness ==
  /\ valid /\ calls >= 2
  /\ last.op = "update" /\ last.status = "ok"
  /\ RLt(Zero, belief.variance)
  /\ RLt(belief.variance, last.variance)

NegativeNoise ==
  \/ last.op = "predict" /\ RLt(last.Q, Zero)
  \/ last.op = "update" /\ RLt(last.R, Zero)

\* C6 as stated: a call with a negative noise argument fails with
\* InvalidInputError and leaves the belief unchanged.
C6_NegativeNoiseRejected ==
  NegativeNoise => (last.status = "InvalidInputError" /\ belief = LastIn)

\* C6 as amended: a negative noise argument is not rejected.  add_gaussians with
\* Q < 0 returns (mean + u, variance + Q); multiply_gaussians with R < 0 returns
\* the product formulas' belief when variance + R # 0, and raises
\* ZeroDivisionError, leaving the belief unchanged, when variance + R = 0.
C6_NegativeNoiseAccepted ==
  /\ (last.op = "predict" /\ RLt(last.Q, Zero))
       => /\ last.status = "ok"
          /\ RSub(belief.mean, last.mean) = last.u
          /\ RSub(belief.variance, last.variance) = last.Q
  /\ (last.op = "update" /\ RLt(last.R, Zero))
       => LET s == RAdd(last.variance, last.R)
          IN IF s = Zero
             THEN last.status = "ZeroDivisionError" /\ belief = LastIn
             ELSE /\ last.status = "ok"
                  /\ RMul(RSub(belief.mean, last.mean), s)
                       = RMul(last.variance, RSub(last.z, last.mean))
                  /\ RMul(belief.variance, s) = RMul(last.variance, last.R)

C6_Witness ==
  /\ last.op = "predict" /\ RLt(last.Q, Zero)
  /\ last.status = "ok"
  /\ RLt(belief.variance, Zero)

BothZero == last.op = "update" /\ last.variance = Zero /\ last.R = Zero

\* C7 as stated: an update with variance = 0 and R = 0 does not divide by zero
\* and returns a well-defined belief.
C7_NoiseFloor == BothZero => last.status = "ok"

\* C7 as amended: an update with variance = 0 and R = 0 divides by zero: no
\* noise floor is injected, the call raises ZeroDivisionError and returns no
\* belief, and the belief it was called with stands.
C7_ZeroDivision ==
  BothZero => (last.status = "ZeroDivisionError" /\ belief = LastIn)

C7_Witness == BothZero /\ last.status = "ZeroDivisionError" /\ calls >= 2

\* C8: from (0, 100), repeating predict(0, 0) then update(5, 1), the variance
\* after each update is smaller than after the update before and > 0, and the
\* mean after the 50th update is within 0.01 of 5.
C8_Convergence ==
  /\ \A k \in 1..Len(history) :
       /\ RLt(Zero, history[k].variance)
       /\ k > 1 => RLt(history[k].variance, history[k - 1].variance)
  /\ Len(history) >= 50 =>
       /\ RLe(RSub(Num(5), history[50].mean), Frac(1, 100))
       /\ RLe(RSub(history[50].mean, Num(5)), Frac(1, 100))

C8_Witness ==
  /\ Len(history) = 50
  /\ last.op = "update" /\ last.status = "ok"
  /\ RLt(belief.mean, Num(5))
  /\ RLt(Frac(499, 100), belief.mean)

\* C9: at every step of the driver's loop the update receives the mean and the
\* variance of x_pred[i], and for i >= 1 the predict receives x_est[i - 1].
C9_UpdateGetsPrediction ==
  passed.i >= 0 =>
    /\ passed.upd = x_pred[passed.i + 1]
    /\ passed.i >= 1 => passed.pred = x_est[passed.i]

\* C10: in the driver, the variance passed to multiply_gaussians plus R is >= 1
\* at every step, so the division by P + R never raises.
C10_DivisorPositive ==
  /\ passed.i >= 0 => RLe(One, RAdd(passed.upd[2], args.R))
  /\ pc # "raised"

C10_Witness ==
  /\ pc = "plot" /\ passed.i >= 1
  /\ args.R = Zero
  /\ x_est[passed.i + 1][2] = Zero
  /\ RLe(One, passed.upd[2])

====
